---- MODULE Spec2Model ----
(***************************************************************************)
(* Birthday window query and its Redis cache                               *)
(* (src/src/repository/bistdays.py, BirthdayRepository).                   *)
(*                                                                         *)
(* Two specifications share this module:                                   *)
(*   SpecWindow  the window computation of get_contacts (lines 64-66) and  *)
(*               its filter (lines 74-92) as pure functions of the date,   *)
(*               the gap and a birthday;                                   *)
(*   Spec        get_contacts as a coroutine that suspends at every await  *)
(*               (Redis GET, the SQL query, Redis SET), run by several     *)
(*               concurrent requests against one Redis and one database.   *)
(***************************************************************************)
EXTENDS Integers, Sequences, FiniteSets, TLC

VARIABLES
    w_pc,       \* SpecWindow: "input" before the computation, "done" after
    w_today,    \* SpecWindow: datetime.now()
    w_gap,      \* SpecWindow: daygap
    w_start,    \* SpecWindow: start_day
    w_end,      \* SpecWindow: end_day
    q_pc,       \* SpecQuery: "input" before the query, "done" after
    q_in,       \* SpecQuery: the contacts table, the date and the arguments
    q_out,      \* SpecQuery: start_day, end_day and the rows the query returned
    today,      \* Spec: the date datetime.now() reports
    contacts_tbl, \* Spec: the rows of the contacts table
    cache,      \* Spec: the Redis keyspace, key -> entry or NoEntry
    pc,         \* Spec: where each request stands in get_contacts
    arg,        \* Spec: each request's user, skip, limit and daygap
    win,        \* Spec: each request's start_day and end_day
    contacts,   \* Spec: each request's local `contacts`, the rows queried
    ret,        \* Spec: the value each request returned
    err,        \* Spec: the exception each request raised, and the await raising it
    queries,    \* Spec: the storage queries each request has executed
    writes,     \* Spec: the Redis write commands of each request that took effect
    prior,      \* Spec: the requests that had ended when each request began
    users_tbl,  \* SpecRegister: the rows of the users table
    users_unique, \* SpecRegister: whether users.email and users.username are unique columns
    reg_pc,     \* SpecRegister: where each registration stands in register_user
    user_data,  \* SpecRegister: each registration's request body
    response    \* SpecRegister: how each registration ended, and the user it created

wvars == <<w_pc, w_today, w_gap, w_start, w_end>>
qvars == <<q_pc, q_in, q_out>>
mvars ==
    <<today, contacts_tbl, cache, pc, arg, win, contacts, ret, err, queries,
      writes, prior>>
rvars == <<users_tbl, users_unique, reg_pc, user_data, response>>
vars == <<wvars, qvars, mvars, rvars>>

(***************************************************************************)
(* Calendar: what datetime, timedelta and tm_yday compute.                 *)
(* A datetime is kept as [year, yday] (the fields timetuple() reports);    *)
(* a birthday, a date column, is kept as <<year, month, day>>.             *)
(***************************************************************************)
IsLeap(y) == (y % 4 = 0 /\ y % 100 # 0) \/ y % 400 = 0

YearLen(y) == IF IsLeap(y) THEN 366 ELSE 365

DaysBeforeMonth == <<0, 31, 59, 90, 120, 151, 181, 212, 243, 273, 304, 334>>

\* Day of the year (1..366) of the calendar date y-m-d: tm_yday in Python,
\* extract(doy from ...) in PostgreSQL.
DayOfYear(y, m, d) ==
    DaysBeforeMonth[m] + (IF m > 2 /\ IsLeap(y) THEN 1 ELSE 0) + d

MkDate(y, m, d) == [year |-> y, yday |-> DayOfYear(y, m, d)]

\* today + timedelta(days = n), n >= 0
RECURSIVE AddDays(_, _)
AddDays(date, n) ==
    IF date.yday + n <= YearLen(date.year)
    THEN [year |-> date.year, yday |-> date.yday + n]
    ELSE AddDays([year |-> date.year + 1, yday |-> 1],
                 n - (YearLen(date.year) - date.yday) - 1)

\* date.timetuple().tm_yday
tm_yday(date) == date.yday

\* EndDay with every year taken as 365 days long
EndDayCommonYear(now, daygap) == ((tm_yday(now) + daygap - 1) % 365) + 1

\* lines 65-66 of get_contacts
StartDay(now) == tm_yday(now)

EndDay(now, daygap) == tm_yday(AddDays(now, daygap))

\* extract("doy", Contact.birstday)
ExtractDoy(birstday) == DayOfYear(birstday[1], birstday[2], birstday[3])

\* InWindow with the two tails joined by AND
InWindowTailsAnd(doy, start_day, end_day) ==
    IF end_day < start_day
    THEN doy >= start_day /\ doy <= end_day
    ELSE start_day <= doy /\ doy <= end_day

\* InWindow taking the wrap branch when end_day = start_day too
InWindowWrapOnEqual(doy, start_day, end_day) ==
    IF end_day <= start_day
    THEN doy >= start_day \/ doy <= end_day
    ELSE start_day <= doy /\ doy <= end_day

\* InWindow with the interval open at start_day
InWindowOpenStart(doy, start_day, end_day) ==
    IF end_day < start_day
    THEN doy > start_day \/ doy <= end_day
    ELSE start_day < doy /\ doy <= end_day

\* The filter of the statement built at lines 74-92: the OR of the two tails
\* when end_day < start_day, BETWEEN (inclusive) otherwise.
InWindow(doy, start_day, end_day) ==
    IF end_day < start_day
    THEN doy >= start_day \/ doy <= end_day
    ELSE start_day <= doy /\ doy <= end_day

(***************************************************************************)
(* The contacts table and the statement get_contacts builds.               *)
(* A row is [id, user, birstday]: the primary key, the owning user's id    *)
(* and the date of birth. The other columns are copied through unread.     *)
(***************************************************************************)
Users == {1, 2}

MaxContacts == 3

ContactIds == 1..MaxContacts

OwnerOf(c) == IF c % 2 = 1 THEN 1 ELSE 2

Min(a, b) == IF a <= b THEN a ELSE b

\* .filter_by(user=user).filter(<window>): the rows the WHERE clause keeps
SelectRows(tbl, user, start_day, end_day) ==
    {r \in tbl : r.user = user
                 /\ InWindow(ExtractDoy(r.birstday), start_day, end_day)}

\* The statement has no ORDER BY: the database may hand the selected rows
\* over in any order.
RowOrders(rows) ==
    {o \in [1..Cardinality(rows) -> rows] :
        \A i, j \in 1..Cardinality(rows) : i # j => o[i] # o[j]}

\* Rows in ascending primary-key order
SortById(rows) ==
    CHOOSE o \in RowOrders(rows) :
        \A i, j \in 1..Cardinality(rows) : i < j => o[i].id < o[j].id

\* .offset(skip).limit(limit)
OffsetLimit(o, skip, limit) == SubSeq(o, skip + 1, Min(Len(o), skip + limit))

\* Every result contacts_result.scalars().all() may hold (lines 74-95)
Pages(tbl, user, start_day, end_day, skip, limit) ==
    {OffsetLimit(o, skip, limit) :
        o \in RowOrders(SelectRows(tbl, user, start_day, end_day))}

(***************************************************************************)
(* Serialization (lines 28-55). Python values carry their type.            *)
(***************************************************************************)
None == [type |-> "NoneType"]

\* str(value) of a date column: "YYYY-MM-DD"
DateStr(birstday) == <<"YYYY-MM-DD", birstday[1], birstday[2], birstday[3]>>

\* str(value) of the related User object: its repr, which names no user
UserStr(user) == "<src.database.models.User object>"

\* serialize(contact): ints pass, a date (no datetime) and the relationship
\* fall to the else branch, str(value)
serialize(contact) ==
    [id |-> contact.id,
     birstday |-> DateStr(contact.birstday),
     user |-> UserStr(contact.user)]

\* json.dumps([serialize(contact) for contact in contacts])
serialize_contacts(cs) ==
    [type |-> "str", json |-> [i \in 1..Len(cs) |-> serialize(cs[i])]]

\* json.loads(serialized_contacts)
deserialize_contacts(serialized) == serialized.json

\* list(contacts), the value line 99 hands to SET
PyList(cs) == [type |-> "list", items |-> cs]

\* redis-py's Encoder.encode takes bytes, str, int and float and raises
\* DataError for every other type.
EncodableTypes == {"bytes", "str", "int", "float"}

CanEncode(value) == value.type \in EncodableTypes

\* `if cached_contacts:` a reply of None is false; a stored JSON text, "[]"
\* included, is a non-empty byte string and true.
Truthy(value) == value.type # "NoneType"

\* RedisKey without the user id
RedisKeyNoUser(user, skip, limit, daygap) == <<0, skip, limit, daygap>>

\* f"{user.id}-{skip}-{limit}-{daygap}": the four integers, in this order,
\* separated; distinct tuples give distinct strings.
RedisKey(user, skip, limit, daygap) == <<user, skip, limit, daygap>>

EXPIRE_SECONDS == 3600

(***************************************************************************)
(* SpecWindow: the window for every day of a common and of a leap year.    *)
(***************************************************************************)
MaxGap == 367

WindowYears == {2023, 2024}

WindowDates ==
    {[year |-> y, yday |-> d] : y \in WindowYears, d \in 1..366}
        \ {[year |-> y, yday |-> 366] : y \in {z \in WindowYears : ~IsLeap(z)}}

QueryOff == q_pc = "off" /\ q_in = <<>> /\ q_out = <<>>

RegisterOff ==
    /\ users_tbl = {}
    /\ users_unique = FALSE
    /\ reg_pc = <<>>
    /\ user_data = <<>>
    /\ response = <<>>

MainOff ==
    /\ today = <<>>
    /\ contacts_tbl = {}
    /\ cache = <<>>
    /\ pc = <<>>
    /\ arg = <<>>
    /\ win = <<>>
    /\ contacts = <<>>
    /\ ret = <<>>
    /\ err = <<>>
    /\ queries = <<>>
    /\ writes = <<>>
    /\ prior = <<>>

WindowOff ==
    /\ w_pc = "off"
    /\ w_today = <<>>
    /\ w_gap = 0
    /\ w_start = 0
    /\ w_end = 0

WindowInit ==
    /\ w_pc = "input"
    /\ w_today \in WindowDates
    /\ w_gap \in 0..MaxGap
    /\ w_start = 0
    /\ w_end = 0
    /\ QueryOff
    /\ MainOff
    /\ RegisterOff

WindowCompute ==
    /\ w_pc = "input"
    /\ w_start' = StartDay(w_today)
    /\ w_end' = EndDay(w_today, w_gap)
    /\ w_pc' = "done"
    /\ UNCHANGED <<w_today, w_gap, qvars, mvars, rvars>>

WindowNext == WindowCompute

SpecWindow == WindowInit /\ [][WindowNext]_vars

\* C4 as stated: for every date and every gap g >= 0, end_day >= start_day
\* when today + g stays in today's year, and end_day < start_day when it
\* passes the end of the year.
C4_WindowSign ==
    w_pc = "done" =>
        IF w_today.yday + w_gap <= YearLen(w_today.year)
        THEN w_end >= w_start
        ELSE w_end < w_start

\* C4 amended: the same for every gap shorter than today's year
\* (g < 365, or g < 366 in a leap year).
C4_WindowSignWithinAYear ==
    (w_pc = "done" /\ w_gap < YearLen(w_today.year)) =>
        IF w_today.yday + w_gap <= YearLen(w_today.year)
        THEN w_end >= w_start
        ELSE w_end < w_start

\* C4 witness: the longest such gap from the last day of a leap year
C4_Witness ==
    /\ w_pc = "done"
    /\ w_today = [year |-> 2024, yday |-> 366]
    /\ w_gap = 365
    /\ w_start = 366
    /\ w_end = 365

\* C7: for every date, daygap = 0 gives start_day = end_day, the filter takes
\* its non-wrap branch and selects exactly the birthdays whose day of the
\* year is start_day.
C7_SingleDay ==
    (w_pc = "done" /\ w_gap = 0) =>
        /\ w_start = w_end
        /\ ~(w_end < w_start)
        /\ \A d \in 1..366 : InWindow(d, w_start, w_end) <=> d = w_start

\* C7 witness: the window of 29 February 2024 with daygap = 0
C7_Witness ==
    /\ w_pc = "done"
    /\ w_gap = 0
    /\ w_today = MkDate(2024, 2, 29)
    /\ w_start = 60
    /\ w_end = 60

(***************************************************************************)
(* SpecQuery: the query of a cache miss (lines 64-66 and 74-95) applied to *)
(* bounded tables, dates and arguments.                                    *)
(***************************************************************************)
MaxSkip == 1

BirthdaySet ==
    {<<1992, 12, 30>>, <<1990, 12, 30>>, <<1990, 6, 15>>, <<1992, 3, 10>>,
     <<1992, 3, 15>>, <<1992, 3, 1>>, <<1991, 1, 4>>}

QueryDates == {MkDate(2024, 12, 28), MkDate(2024, 3, 1), MkDate(2023, 6, 10)}

QueryGaps == {0, 7, 10}

Tables ==
    {{[id |-> c, user |-> OwnerOf(c), birstday |-> f[c]] : c \in S} :
        S \in SUBSET ContactIds, f \in [ContactIds -> BirthdaySet]}

QueryInit ==
    /\ q_pc = "input"
    /\ q_in \in [tbl : Tables, today : QueryDates, user : Users,
                 skip : 0..MaxSkip, limit : 1..MaxContacts, daygap : QueryGaps]
    /\ q_out = <<>>
    /\ WindowOff
    /\ MainOff
    /\ RegisterOff

QueryExecute ==
    /\ q_pc = "input"
    /\ LET start_day == StartDay(q_in.today)
           end_day == EndDay(q_in.today, q_in.daygap)
       IN  \E page \in Pages(q_in.tbl, q_in.user, start_day, end_day,
                             q_in.skip, q_in.limit) :
               q_out' = [start_day |-> start_day, end_day |-> end_day,
                         contacts |-> page]
    /\ q_pc' = "done"
    /\ UNCHANGED <<q_in, wvars, mvars, rvars>>

QueryNext == QueryExecute

SpecQuery == QueryInit /\ [][QueryNext]_vars

Range(o) == {o[i] : i \in 1..Len(o)}

Max(a, b) == IF a >= b THEN a ELSE b

\* The rows of the queried user's that the rule of C5 names
RuleRows ==
    {r \in q_in.tbl :
        /\ r.user = q_in.user
        /\ LET d == ExtractDoy(r.birstday)
           IN  IF q_out.end_day >= q_out.start_day
               THEN q_out.start_day <= d /\ d <= q_out.end_day
               ELSE d >= q_out.start_day \/ d <= q_out.end_day}

\* C5: the rows a miss selects before pagination are exactly the user's rows
\* whose birthday's day of the year d has start_day <= d <= end_day when
\* end_day >= start_day, and d >= start_day or d <= end_day otherwise: every
\* page holds only such rows, none twice, and as many as offset and limit
\* leave of them (all of them when skip = 0 and limit covers them).
C5_SelectedRows ==
    q_pc = "done" =>
        /\ Range(q_out.contacts) \subseteq RuleRows
        /\ Cardinality(Range(q_out.contacts)) = Len(q_out.contacts)
        /\ Len(q_out.contacts) =
               Min(q_in.limit, Max(0, Cardinality(RuleRows) - q_in.skip))

\* C5 witness: the example of 2024-03-01 with daygap = 10 (days 61..71): of
\* two rows of the user, the one born 03-10 is returned, the one born 03-15
\* is not.
C5_Witness ==
    /\ q_pc = "done"
    /\ q_in.today = MkDate(2024, 3, 1)
    /\ q_in.daygap = 10
    /\ q_in.skip = 0
    /\ q_out.start_day = 61
    /\ q_out.end_day = 71
    /\ \E r, x \in q_in.tbl :
           /\ r.user = q_in.user /\ r.birstday = <<1992, 3, 10>>
           /\ x.user = q_in.user /\ x.birstday = <<1992, 3, 15>>
           /\ q_out.contacts = <<r>>

\* C6: on 2024-12-28 with daygap = 7 the window is start_day = 363,
\* end_day = 4, the wrap case; a row of the user born on 12-30, in a leap
\* year or not, is selected, and a row born on 06-15 is not.
C6_DecemberExample ==
    (q_pc = "done" /\ q_in.today = MkDate(2024, 12, 28) /\ q_in.daygap = 7) =>
        /\ q_out.start_day = 363
        /\ q_out.end_day = 4
        /\ q_out.end_day < q_out.start_day
        /\ \A r \in q_in.tbl :
               /\ (r.birstday[2] = 6 /\ r.birstday[3] = 15)
                      => r \notin Range(q_out.contacts)
               /\ (/\ r.user = q_in.user
                   /\ r.birstday[2] = 12 /\ r.birstday[3] = 30
                   /\ q_in.skip = 0
                   /\ q_in.limit >= Cardinality(q_in.tbl))
                      => r \in Range(q_out.contacts)

\* C6 witness: the user owns a row born 1990-12-30 (day 364) and a row born
\* 1990-06-15; the query of 2024-12-28, daygap 7, returns the first alone.
C6_Witness ==
    /\ q_pc = "done"
    /\ q_in.today = MkDate(2024, 12, 28)
    /\ q_in.daygap = 7
    /\ q_out.start_day = 363
    /\ q_out.end_day = 4
    /\ \E r, x \in q_in.tbl :
           /\ r.user = q_in.user /\ r.birstday = <<1990, 12, 30>>
           /\ x.user = q_in.user /\ x.birstday = <<1990, 6, 15>>
           /\ q_out.contacts = <<r>>

\* C9: a miss returns at most limit rows, and they are the rows at positions
\* skip+1 .. skip+limit of the selected rows in ascending primary-key order.
C9_PrimaryKeyPage ==
    q_pc = "done" =>
        /\ Len(q_out.contacts) <= q_in.limit
        /\ q_out.contacts =
               OffsetLimit(SortById(SelectRows(q_in.tbl, q_in.user,
                                               q_out.start_day, q_out.end_day)),
                           q_in.skip, q_in.limit)

(***************************************************************************)
(* Spec: concurrent requests running get_contacts (lines 57-102). A        *)
(* request suspends at each await; Redis and the database may fail any     *)
(* single operation. The Redis server outlives the application: at the     *)
(* start it may hold entries written under the cache contract (key of      *)
(* RedisKey, a serialized page of the key's user, an expiry), and it drops *)
(* an entry when its expiry runs out.                                      *)
(***************************************************************************)
NumCalls == 2

Calls == 1..NumCalls

MainShapes == {[skip |-> 0, limit |-> 2, daygap |-> 7]}

MainDates == {MkDate(2024, 12, 28)}

\* The dates the clock passes through while the requests run
ClockDates == MainDates \cup {AddDays(d, 1) : d \in MainDates}

BirthdaySeq ==
    << <<1992, 12, 30>>, <<1990, 12, 30>>, <<1992, 12, 28>>, <<1990, 6, 15>> >>

FixtureRows ==
    {[id |-> c, user |-> OwnerOf(c),
      birstday |-> BirthdaySeq[((c - 1) % Len(BirthdaySeq)) + 1]] :
        c \in ContactIds}

AllKeys ==
    {RedisKey(u, sh.skip, sh.limit, sh.daygap) : u \in Users, sh \in MainShapes}

\* A key Redis does not hold: GET replies None
NoEntry == [value |-> None, ttl |-> 0]

\* The page of user u an earlier writer stored for the shape sh on the date
\* now: the rows of u in that date's window, by primary key
SeedPage(u, sh, now) ==
    OffsetLimit(SortById(SelectRows(FixtureRows, u, StartDay(now),
                                    EndDay(now, sh.daygap))),
                sh.skip, sh.limit)

\* The keyspace after the users of U had the shape sh cached on the date now
SeedCache(U, sh, now) ==
    [k \in AllKeys |->
        IF \E u \in U : RedisKey(u, sh.skip, sh.limit, sh.daygap) = k
        THEN LET w == CHOOSE u \in U :
                          RedisKey(u, sh.skip, sh.limit, sh.daygap) = k
             IN  [value |-> serialize_contacts(SeedPage(w, sh, now)),
                  ttl |-> EXPIRE_SECONDS]
        ELSE NoEntry]

NoArg == [user |-> 0, skip |-> 0, limit |-> 0, daygap |-> 0]

NoWin == [start_day |-> 0, end_day |-> 0]

NoErr == [exc |-> "none", at |-> "none"]

Ended == {"returned", "raised"}

Init ==
    /\ today \in MainDates
    /\ contacts_tbl = FixtureRows
    /\ cache \in {SeedCache(U, sh, today) :
                      U \in SUBSET Users, sh \in MainShapes}
    /\ pc = [p \in Calls |-> "idle"]
    /\ arg = [p \in Calls |-> NoArg]
    /\ win = [p \in Calls |-> NoWin]
    /\ contacts = [p \in Calls |-> <<>>]
    /\ ret = [p \in Calls |-> <<>>]
    /\ err = [p \in Calls |-> NoErr]
    /\ queries = [p \in Calls |-> 0]
    /\ writes = [p \in Calls |-> 0]
    /\ prior = [p \in Calls |-> {}]
    /\ WindowOff
    /\ QueryOff
    /\ RegisterOff

\* redis_key of request p (line 67)
Key(p) == RedisKey(arg[p].user, arg[p].skip, arg[p].limit, arg[p].daygap)

\* Request p ends with the exception exc, raised by the await `at`; nothing
\* in get_contacts, the service or the route catches it.
Raise(p, exc, at) ==
    /\ pc' = [pc EXCEPT ![p] = "raised"]
    /\ err' = [err EXCEPT ![p] = [exc |-> exc, at |-> at]]

\* GET /birstdays/nearest (src/src/api/birstdays.py): the route calls
\* BirthdayService.get_contacts(skip, limit, daygap) without the user the
\* service requires, which raises TypeError before the repository runs.
read_bistdays(p) ==
    /\ pc[p] = "idle"
    /\ Raise(p, "TypeError", "service.get_contacts")
    /\ UNCHANGED <<today, contacts_tbl, cache, arg, win, contacts, ret,
                   queries, writes, prior, wvars, qvars, rvars>>

\* Lines 64-69, up to the await of GET: a caller that passes a user
get_contacts(p, user, sh) ==
    /\ pc[p] = "idle"
    /\ arg' = [arg EXCEPT ![p] = [user |-> user, skip |-> sh.skip,
                                  limit |-> sh.limit, daygap |-> sh.daygap]]
    /\ win' = [win EXCEPT ![p] = [start_day |-> StartDay(today),
                                  end_day |-> EndDay(today, sh.daygap)]]
    /\ prior' = [prior EXCEPT ![p] = {q \in Calls : pc[q] \in Ended}]
    /\ pc' = [pc EXCEPT ![p] = "get"]
    /\ UNCHANGED <<today, contacts_tbl, cache, contacts, ret, err, queries,
                   writes, wvars, qvars, rvars>>

\* Lines 69-72: the reply to GET. A truthy reply is deserialized and
\* returned; None goes on to the query; a connection failure propagates.
RedisGet(p) ==
    /\ pc[p] = "get"
    /\ \/ /\ Raise(p, "ConnectionError", "redis.get")
          /\ UNCHANGED ret
       \/ LET cached_contacts == cache[Key(p)].value
          IN  IF Truthy(cached_contacts)
              THEN /\ ret' = [ret EXCEPT
                                 ![p] = deserialize_contacts(cached_contacts)]
                   /\ pc' = [pc EXCEPT ![p] = "returned"]
                   /\ UNCHANGED err
              ELSE /\ pc' = [pc EXCEPT ![p] = "execute"]
                   /\ UNCHANGED <<ret, err>>
    /\ UNCHANGED <<today, contacts_tbl, cache, arg, win, contacts, queries,
                   writes, prior, wvars, qvars, rvars>>

\* A get_contacts that caught the database failure and carried on with an
\* empty page, as a try/except around line 94 would
DbExecuteSwallowed(p) ==
    /\ pc[p] = "execute"
    /\ queries' = [queries EXCEPT ![p] = @ + 1]
    /\ \/ /\ err' = [err EXCEPT ![p] = [exc |-> "DBAPIError",
                                        at |-> "db.execute"]]
          /\ contacts' = [contacts EXCEPT ![p] = <<>>]
       \/ /\ \E page \in Pages(contacts_tbl, arg[p].user, win[p].start_day,
                               win[p].end_day, arg[p].skip, arg[p].limit) :
                 contacts' = [contacts EXCEPT ![p] = page]
          /\ UNCHANGED err
    /\ pc' = [pc EXCEPT ![p] = "set"]
    /\ UNCHANGED <<today, contacts_tbl, cache, arg, win, ret, writes, prior,
                   wvars, qvars, rvars>>

\* Lines 74-95: the statement is built and executed; a database failure
\* propagates.
DbExecute(p) ==
    /\ pc[p] = "execute"
    /\ queries' = [queries EXCEPT ![p] = @ + 1]
    /\ \/ /\ Raise(p, "DBAPIError", "db.execute")
          /\ UNCHANGED contacts
       \/ /\ \E page \in Pages(contacts_tbl, arg[p].user, win[p].start_day,
                               win[p].end_day, arg[p].skip, arg[p].limit) :
                 contacts' = [contacts EXCEPT ![p] = page]
          /\ pc' = [pc EXCEPT ![p] = "set"]
          /\ UNCHANGED err
    /\ UNCHANGED <<today, contacts_tbl, cache, arg, win, ret, writes, prior,
                   wvars, qvars, rvars>>

\* Lines 98-99: SET redis_key list(contacts). The client takes a connection
\* (which may fail), then encodes the arguments: a list is no encodable
\* type, so the command raises DataError and is never sent.
RedisSet(p) ==
    /\ pc[p] = "set"
    /\ LET value == PyList(contacts[p])
       IN  \/ /\ Raise(p, "ConnectionError", "redis.set")
              /\ UNCHANGED <<cache, writes>>
           \/ IF CanEncode(value)
              THEN /\ cache' = [cache EXCEPT
                                   ![Key(p)] = [value |-> value, ttl |-> 0]]
                   /\ writes' = [writes EXCEPT ![p] = @ + 1]
                   /\ pc' = [pc EXCEPT ![p] = "expire"]
                   /\ UNCHANGED err
              ELSE /\ Raise(p, "DataError", "redis.set")
                   /\ UNCHANGED <<cache, writes>>
    /\ UNCHANGED <<today, contacts_tbl, arg, win, contacts, ret, queries,
                   prior, wvars, qvars, rvars>>

\* Line 100: EXPIRE redis_key 3600 (0 keys changed when the key is gone)
RedisExpire(p) ==
    /\ pc[p] = "expire"
    /\ \/ /\ Raise(p, "ConnectionError", "redis.expire")
          /\ UNCHANGED <<cache, writes>>
       \/ /\ cache' = IF cache[Key(p)] = NoEntry
                      THEN cache
                      ELSE [cache EXCEPT ![Key(p)].ttl = EXPIRE_SECONDS]
          /\ writes' = [writes EXCEPT ![p] = @ + 1]
          /\ pc' = [pc EXCEPT ![p] = "return"]
          /\ UNCHANGED err
    /\ UNCHANGED <<today, contacts_tbl, arg, win, contacts, ret, queries,
                   prior, wvars, qvars, rvars>>

\* Line 102: the miss path returns the deserialized serialization
Return(p) ==
    /\ pc[p] = "return"
    /\ ret' = [ret EXCEPT
                  ![p] = deserialize_contacts(serialize_contacts(contacts[p]))]
    /\ pc' = [pc EXCEPT ![p] = "returned"]
    /\ UNCHANGED <<today, contacts_tbl, cache, arg, win, contacts, err,
                   queries, writes, prior, wvars, qvars, rvars>>

\* The Redis server drops an entry whose expiry has run out
RedisEvict(k) ==
    /\ cache[k].ttl > 0
    /\ cache' = [cache EXCEPT ![k] = NoEntry]
    /\ UNCHANGED <<today, contacts_tbl, pc, arg, win, contacts, ret, err,
                   queries, writes, prior, wvars, qvars, rvars>>

\* The server's date moves on to the next day (date.today() of line 64 reads
\* the system clock)
Midnight ==
    /\ AddDays(today, 1) \in ClockDates
    /\ today' = AddDays(today, 1)
    /\ UNCHANGED <<contacts_tbl, cache, pc, arg, win, contacts, ret, err,
                   queries, writes, prior, wvars, qvars, rvars>>

\* RedisExpire and Return follow only a SET that succeeded. No state of Spec
\* enables them (SetNeverSucceeds), so Next does not list them.
Next ==
    \/ \E p \in Calls : read_bistdays(p)
    \/ \E p \in Calls, u \in Users, sh \in MainShapes : get_contacts(p, u, sh)
    \/ \E p \in Calls : RedisGet(p)
    \/ \E p \in Calls : DbExecute(p)
    \/ \E p \in Calls : RedisSet(p)
    \/ \E k \in AllKeys : RedisEvict(k)
    \/ Midnight

Spec == Init /\ [][Next]_vars

\* No request gets past line 99, so lines 100-102 never run.
SetNeverSucceeds == \A p \in Calls : pc[p] \notin {"expire", "return"}

\* Request p went through the miss path with Redis and the database
\* answering every operation: the only exception it can have met is the
\* client's own DataError.
HealthyMiss(p) ==
    /\ pc[p] \in Ended
    /\ queries[p] = 1
    /\ err[p].exc \notin {"ConnectionError", "DBAPIError"}

\* C1: once a request that missed the cache has ended, a later request with
\* the same user, skip, limit and daygap executes no storage query.
C1_SecondCallSkipsStorage ==
    \A p, q \in Calls :
        (p \in prior[q] /\ arg[q] = arg[p] /\ HealthyMiss(p))
            => queries[q] = 0

C3_CacheFailuresSwallowed ==
    \A p \in Calls :
        pc[p] = "raised"
            => err[p].at \notin {"redis.get", "redis.set", "redis.expire"}

\* C8: of two requests with the same user, skip, limit and daygap, the second
\* begun after the first ended and within the expiry window (the first was a
\* miss, or the entry it hit is still there), both return, and return the
\* same serialized data.
C8_SameOutputTwice ==
    \A p, q \in Calls :
        (/\ p \in prior[q] /\ pc[q] \in Ended
         /\ arg[q] = arg[p] /\ arg[p] # NoArg
         /\ err[p].exc \notin {"ConnectionError", "DBAPIError"}
         /\ err[q].exc \notin {"ConnectionError", "DBAPIError"}
         /\ (queries[p] = 1 \/ cache[Key(p)] # NoEntry))
            => /\ pc[p] = "returned"
               /\ pc[q] = "returned"
               /\ ret[q] = ret[p]

\* C10: when a miss has ended, its key holds the serialized form of the rows
\* it queried, with an expiry of 3600 seconds.
C10_StoresSerializedPage ==
    \A p \in Calls :
        HealthyMiss(p)
            => cache[Key(p)] = [value |-> serialize_contacts(contacts[p]),
                                ttl |-> EXPIRE_SECONDS]

\* C11: get_contacts writes to the cache store on every miss and never writes
\* to persistent storage: every request that missed, met no fault and ended
\* has had a write command take effect in Redis, and the contacts table is
\* what it was before any request.
C11_WritesCacheNotStorage ==
    /\ \A p \in Calls : HealthyMiss(p) => writes[p] >= 1
    /\ contacts_tbl = FixtureRows

\* Two requests with the same arguments that were in flight together and
\* both missed without a store fault
RacedMisses(p, q) ==
    /\ p # q
    /\ arg[p] = arg[q]
    /\ p \notin prior[q]
    /\ q \notin prior[p]
    /\ HealthyMiss(p)
    /\ HealthyMiss(q)

\* C12: when two concurrent get_contacts calls with the same (user, skip,
\* limit, daygap) both miss and race to populate the key, the last writer
\* wins and the entry left is the same whichever wrote last: once both have
\* ended the key holds an entry, and it is the serialized page of either.
C12_RaceLeavesOneEntry ==
    \A p, q \in Calls :
        RacedMisses(p, q) =>
            /\ cache[Key(p)].value = serialize_contacts(contacts[p])
            /\ cache[Key(p)].value = serialize_contacts(contacts[q])

\* C13: a database error during the query of get_contacts propagates to the
\* caller and the failed call writes no cache entry: a request whose
\* db.execute failed has ended with that exception, has returned nothing and
\* has had no Redis write command take effect.
C13_StorageErrorPropagates ==
    \A p \in Calls :
        err[p].at = "db.execute" =>
            /\ pc[p] = "raised"
            /\ err[p].exc = "DBAPIError"
            /\ ret[p] = <<>>
            /\ writes[p] = 0

\* A request missed, its query failed, and its key holds no entry
C13_Witness ==
    \E p \in Calls :
        /\ pc[p] = "raised"
        /\ err[p] = [exc |-> "DBAPIError", at |-> "db.execute"]
        /\ queries[p] = 1
        /\ cache[Key(p)] = NoEntry

\* The cache lookup of request p has replied a miss: the request is at or
\* past the query, or ended with an exception raised there or later
LookupMissed(p) ==
    \/ pc[p] \in {"execute", "set", "expire", "return"}
    \/ /\ pc[p] = "raised"
       /\ err[p].at \in {"db.execute", "redis.set", "redis.expire"}
    \/ pc[p] = "returned" /\ queries[p] = 1

\* C15: the cache-hit path never computes the window: a request holds a
\* computed start_day and end_day only after its cache lookup has missed.
C15_WindowOnlyAfterMiss ==
    \A p \in Calls : win[p] # NoWin => LookupMissed(p)

\* What a miss-path query of request p's arguments can return on the date
\* now over the table tbl, in the shape the caller receives
FreshResults(p, tbl, now) ==
    {deserialize_contacts(serialize_contacts(page)) :
        page \in Pages(tbl, arg[p].user, StartDay(now),
                       EndDay(now, arg[p].daygap), arg[p].skip, arg[p].limit)}

C17_HitEqualsFreshQuerySameDay ==
    [][\A p \in Calls :
          (pc[p] = "get" /\ pc'[p] = "returned" /\ today \in MainDates)
              => ret'[p] \in FreshResults(p, contacts_tbl, today)]_vars

(***************************************************************************)
(* SpecRegister: POST /auth/register (src/src/api/auth.py). Each request   *)
(* runs register_user on its own database session and suspends at each     *)
(* await: the lookup by email, the lookup by username, the commit of the   *)
(* new row. The users table is not declared in src/src/database/models.py, *)
(* so the table is taken both ways: with users.email and users.username    *)
(* unique, and without.                                                    *)
(***************************************************************************)
NumRegistrations == 2

Registrations == 1..NumRegistrations

Emails == {"ann@example.com", "bob@example.com"}

Usernames == {"ann", "bob"}

\* UserCreate bodies (the password plays no part in the lookups)
UserCreate == [email : Emails, username : Usernames]

UniqueSchemas == BOOLEAN

NoBody == [email |-> "", username |-> ""]

NoResponse == [status |-> "none", user |-> 0]

RegisterInit ==
    /\ users_tbl = {}
    /\ users_unique \in UniqueSchemas
    /\ reg_pc = [r \in Registrations |-> "idle"]
    /\ user_data = [r \in Registrations |-> NoBody]
    /\ response = [r \in Registrations |-> NoResponse]
    /\ WindowOff
    /\ QueryOff
    /\ MainOff

\* Registration r ends with the response status, having created the user
\* with the given id (0: none)
Respond(r, status, id) ==
    /\ reg_pc' = [reg_pc EXCEPT ![r] = "done"]
    /\ response' = [response EXCEPT ![r] = [status |-> status, user |-> id]]

\* Result.scalar_one_or_none() over the rows a select returned: the row,
\* None, or MultipleResultsFound when there is more than one
ScalarOneOrNone(rows) ==
    IF Cardinality(rows) > 1 THEN "MultipleResultsFound"
    ELSE IF rows = {} THEN "None"
    ELSE "row"

\* The request arrives with its body (auth.py:40-46)
register_user(r, body) ==
    /\ reg_pc[r] = "idle"
    /\ reg_pc' = [reg_pc EXCEPT ![r] = "get_user_by_email"]
    /\ user_data' = [user_data EXCEPT ![r] = body]
    /\ UNCHANGED <<users_tbl, users_unique, response, wvars, qvars, mvars>>

\* auth.py:48-53 with UserRepository.get_user_by_email
get_user_by_email(r) ==
    /\ reg_pc[r] = "get_user_by_email"
    /\ LET found == ScalarOneOrNone(
                        {u \in users_tbl : u.email = user_data[r].email})
       IN  IF found = "MultipleResultsFound"
           THEN Respond(r, "MultipleResultsFound", 0)
           ELSE IF found = "row"
           THEN Respond(r, "409", 0)
           ELSE /\ reg_pc' = [reg_pc EXCEPT ![r] = "get_user_by_username"]
                /\ UNCHANGED response
    /\ UNCHANGED <<users_tbl, users_unique, user_data, wvars, qvars, mvars>>

\* auth.py:55-60 with UserRepository.get_user_by_username
get_user_by_username(r) ==
    /\ reg_pc[r] = "get_user_by_username"
    /\ LET found == ScalarOneOrNone(
                        {u \in users_tbl : u.username = user_data[r].username})
       IN  IF found = "MultipleResultsFound"
           THEN Respond(r, "MultipleResultsFound", 0)
           ELSE IF found = "row"
           THEN Respond(r, "409", 0)
           ELSE /\ reg_pc' = [reg_pc EXCEPT ![r] = "create_user"]
                /\ UNCHANGED response
    /\ UNCHANGED <<users_tbl, users_unique, user_data, wvars, qvars, mvars>>

\* auth.py:61-64 with UserRepository.create_user: the row is added and
\* committed. A unique column refuses a duplicate with IntegrityError, which
\* nothing catches; without unique columns the row is stored.
create_user(r) ==
    /\ reg_pc[r] = "create_user"
    /\ LET id == Cardinality(users_tbl) + 1
           clash == \E u \in users_tbl :
                        \/ u.email = user_data[r].email
                        \/ u.username = user_data[r].username
       IN  IF users_unique /\ clash
           THEN /\ Respond(r, "IntegrityError", 0)
                /\ UNCHANGED users_tbl
           ELSE /\ users_tbl' = users_tbl \cup
                                    {[id |-> id,
                                      email |-> user_data[r].email,
                                      username |-> user_data[r].username]}
                /\ Respond(r, "201", id)
    /\ UNCHANGED <<users_unique, user_data, wvars, qvars, mvars>>

RegisterNext ==
    \/ \E r \in Registrations, body \in UserCreate : register_user(r, body)
    \/ \E r \in Registrations : get_user_by_email(r)
    \/ \E r \in Registrations : get_user_by_username(r)
    \/ \E r \in Registrations : create_user(r)

SpecRegister == RegisterInit /\ [][RegisterNext]_vars

\* C14: after any interleaving of register_user requests no two stored users
\* share an email or a username, and every registration that has ended
\* either created its user (201) or was rejected with 409 Conflict and
\* created none.
C14_UniqueUsers ==
    /\ \A u, v \in users_tbl :
          u.id # v.id => u.email # v.email /\ u.username # v.username
    /\ \A r \in Registrations :
          reg_pc[r] = "done" =>
              \/ response[r].status = "201" /\ response[r].user # 0
              \/ response[r] = [status |-> "409", user |-> 0]

====
